---------------------------- MODULE Spec2Model ----------------------------
(***************************************************************************)
(* Model of Python/test.py: the regular-expression instruction extractor   *)
(* (extract_image_instructions) and the sequential story run (main).       *)
(*                                                                         *)
(* A Python str is a sequence of one-character strings; Python's None is   *)
(* the value None below, which is no such sequence.                        *)
(***************************************************************************)
EXTENDS Integers, Sequences, FiniteSets, TLC

VARIABLES
    \* -- a direct call of extract_image_instructions -------------------
    text,               \* argument text (a str, or None)
    max_length,         \* argument max_length
    result,             \* the returned str (<<>> until the call returns)
    raised,             \* "" or the name of the exception the call raised
    xpc,                \* "call" before the call, "done" after it
    \* -- one process running main(), run after run ---------------------
    pc,                 \* position in main
    story_info,         \* the three console answers
    text_response,      \* result of the first chat call, or None
    prompt,             \* the prompt last built
    image_prompt,       \* result of the second chat call, or None
    image_instructions, \* extractor output, or None
    image_url,          \* result of the image call, or None
    failed,             \* the API wrappers that returned None after a failure, this run
    image_called,       \* client.images.generate was called this run
    inserted,           \* save_to_database ran this run
    downloaded,         \* download_image wrote the file this run
    exception,          \* "" or the exception that left main
    conn,               \* "none" | "open" | "closed"
    db,                 \* committed rows of table stories
    lastrowid,          \* cursor.lastrowid
    images,             \* files written under image_dir: <<row id, url>>
    runs                \* runs started so far

xvars == <<text, max_length, result, raised, xpc>>
mvars == <<pc, story_info, text_response, prompt, image_prompt, image_instructions,
           image_url, failed, image_called, inserted, downloaded, exception, conn,
           db, lastrowid, images, runs>>
vars == <<xvars, mvars>>

-----------------------------------------------------------------------------
(* Strings *)

Chars(s) == [i \in 1..Len(s) |-> SubSeq(s, i, i)]

None == <<"None">>

MinOf(S) == CHOOSE m \in S : \A n \in S : m <= n
MaxOf(S) == CHOOSE m \in S : \A n \in S : m >= n

\* Python truthiness of a str-or-None value
Truthy(v) == v # None /\ v # <<>>

\* str(v) as an f-string formats it
Str(v) == IF v = None THEN Chars("None") ELSE v

\* sep.join(parts)
RECURSIVE Join(_, _)
Join(sep, parts) ==
    IF parts = <<>> THEN <<>>
    ELSE IF Len(parts) = 1 THEN parts[1]
    ELSE parts[1] \o sep \o Join(sep, Tail(parts))

\* filter(None, parts): the non-empty strings, in order
FilterNone(parts) == SelectSeq(parts, LAMBDA p : p # <<>>)

\* s[:stop]
SliceTo(s, stop) ==
    LET n == Len(s)
        e == IF stop < 0 THEN (IF stop + n < 0 THEN 0 ELSE stop + n)
             ELSE (IF stop > n THEN n ELSE stop)
    IN SubSeq(s, 1, e)

\* s.rsplit(' ', 1)[0]
RSplitFirst(s) ==
    LET spaces == {i \in 1..Len(s) : s[i] = " "}
    IN IF spaces = {} THEN s ELSE SubSeq(s, 1, MaxOf(spaces) - 1)

-----------------------------------------------------------------------------
(* Regular expressions: every alternative of the three patterns is          *)
(*   <prefix literal> [^\.,]+ <suffix literal, possibly empty>              *)

Alt(p, s) == [prefix |-> Chars(p), suffix |-> Chars(s)]

setting_pattern == <<Alt("in a ", ""), Alt("on a ", ""), Alt("at the ", "")>>

characters_pattern ==
    <<Alt("a ", " man"), Alt("a ", " woman"), Alt("a ", " person"), Alt("a ", " creature")>>

action_pattern ==
    <<Alt("holding a ", ""), Alt("standing ", ""), Alt("sitting ", ""), Alt("lying ", "")>>

\* the character class [^\.,]
InClass(c) == c \notin {".", ","}

LitAt(t, i, lit) ==
    i + Len(lit) - 1 <= Len(t) /\ \A k \in 1..Len(lit) : t[i + k - 1] = lit[k]

\* last index of the longest run of class characters starting at i (i-1: none)
RunEnd(t, i) ==
    LET stops == {j \in i..Len(t) : ~InClass(t[j])}
    IN IF stops = {} THEN Len(t) ELSE MinOf(stops) - 1

\* index of the last character of alt's match starting at i; 0 when it does not
\* match there. The class part is greedy: the regex engine gives back characters
\* only until the suffix fits, so the suffix is taken at its last occurrence.
MatchAlt(t, i, alt) ==
    IF ~LitAt(t, i, alt.prefix) THEN 0
    ELSE LET b == i + Len(alt.prefix)
             e == RunEnd(t, b)
         IN IF e < b THEN 0
            ELSE IF alt.suffix = <<>> THEN e
            ELSE LET at == {j \in (b + 1)..(e + 1) : LitAt(t, j, alt.suffix)}
                 IN IF at = {} THEN 0 ELSE MaxOf(at) + Len(alt.suffix) - 1

\* the alternatives are tried in order at one position
MatchAt(t, i, pattern) ==
    LET hits == {a \in 1..Len(pattern) : MatchAlt(t, i, pattern[a]) > 0}
    IN IF hits = {} THEN 0 ELSE MatchAlt(t, i, pattern[MinOf(hits)])

NoMatch == [start |-> 0, end |-> 0]

\* re.search(pattern, t) scanning from index from: the leftmost match
SearchFrom(pattern, t, from) ==
    LET starts == {i \in from..Len(t) : MatchAt(t, i, pattern) > 0}
    IN IF starts = {} THEN NoMatch
       ELSE [start |-> MinOf(starts), end |-> MatchAt(t, MinOf(starts), pattern)]

re_search(pattern, t) == SearchFrom(pattern, t, 1)

\* match.group()
Group(t, m) == SubSeq(t, m.start, m.end)

\* re.findall(pattern, t): the non-overlapping matches, left to right
RECURSIVE FindAllFrom(_, _, _)
FindAllFrom(pattern, t, from) ==
    LET m == SearchFrom(pattern, t, from)
    IN IF m = NoMatch THEN <<>>
       ELSE <<Group(t, m)>> \o FindAllFrom(pattern, t, m.end + 1)

re_findall(pattern, t) == FindAllFrom(pattern, t, 1)

-----------------------------------------------------------------------------
(* extract_image_instructions *)

DefaultMaxLength == 500

instruction_parts_swapped(t) ==
    LET setting == re_search(setting_pattern, t)
        characters == re_findall(characters_pattern, t)
        action == re_search(action_pattern, t)
    IN <<Join(Chars(", "), characters),
         IF setting # NoMatch THEN Group(t, setting) ELSE <<>>,
         IF action # NoMatch THEN Group(t, action) ELSE <<>> >>

\* lines 72-79: the three pieces, an unmatched one being ""
instruction_parts(t) ==
    LET setting == re_search(setting_pattern, t)
        characters == re_findall(characters_pattern, t)
        action == re_search(action_pattern, t)
    IN <<IF setting # NoMatch THEN Group(t, setting) ELSE <<>>,
         Join(Chars(", "), characters),
         IF action # NoMatch THEN Group(t, action) ELSE <<>> >>

instruction_unfiltered(t) == Join(Chars(", "), instruction_parts(t))

\* line 80
instruction(t) == Join(Chars(", "), FilterNone(instruction_parts(t)))

truncate_off_by_one(instr, limit) ==
    IF Len(instr) > limit THEN RSplitFirst(SliceTo(instr, limit + 1)) ELSE instr

truncate_first_space(instr, limit) ==
    IF Len(instr) > limit
    THEN LET s == SliceTo(instr, limit)
             spaces == {i \in 1..Len(s) : s[i] = " "}
         IN IF spaces = {} THEN s ELSE SubSeq(s, 1, MinOf(spaces) - 1)
    ELSE instr

\* lines 84-86
truncate(instr, limit) ==
    IF Len(instr) > limit THEN RSplitFirst(SliceTo(instr, limit)) ELSE instr

extract_unguarded_group(t, limit) ==
    IF t = None THEN [raised |-> "TypeError", value |-> <<>>]
    ELSE IF re_search(setting_pattern, t) = NoMatch
         THEN [raised |-> "AttributeError", value |-> <<>>]
    ELSE [raised |-> "", value |-> truncate(instruction(t), limit)]

\* lines 55-86; re.search on None raises TypeError at line 72
extract_image_instructions(t, limit) ==
    IF t = None THEN [raised |-> "TypeError", value |-> <<>>]
    ELSE [raised |-> "", value |-> truncate(instruction(t), limit)]

-----------------------------------------------------------------------------
(* Inputs of the direct calls *)

MaxFragments == 3
MaxNegative == 2
MaxSmallLength == 11

Fragments ==
    <<Chars("in a forest, "), Chars("a tall woman "), Chars("a big man, "),
      Chars("holding a lamp. "), Chars("on a hill\n")>>

RECURSIVE Flatten(_)
Flatten(ss) == IF ss = <<>> THEN <<>> ELSE Head(ss) \o Flatten(Tail(ss))

FragmentTexts ==
    UNION {{Flatten([i \in 1..n |-> Fragments[f[i]]]) : f \in [1..n -> 1..Len(Fragments)]}
           : n \in 0..MaxFragments}

CastleText == Chars("A tall woman standing near a castle in a dark forest holding a lantern.")
ForestText == Chars("in a forest, a tall woman")
CrowdText == Chars("at the gate, a big man, a tall woman, a shy creature, lying down.")
QuietText == Chars("A cat sat. The woman ran, and a man sat in the sun.")

Texts == FragmentTexts \cup {CastleText, ForestText, CrowdText, QuietText, None}

MaxLengths == (-MaxNegative..MaxSmallLength) \cup {DefaultMaxLength}

InitMain ==
    /\ pc = "start"
    /\ story_info = [story_type |-> <<>>, setting |-> <<>>, characters |-> <<>>]
    /\ text_response = None
    /\ prompt = <<>>
    /\ image_prompt = None
    /\ image_instructions = None
    /\ image_url = None
    /\ failed = {}
    /\ image_called = FALSE
    /\ inserted = FALSE
    /\ downloaded = FALSE
    /\ exception = ""
    /\ conn = "none"
    /\ db = <<>>
    /\ lastrowid = 0
    /\ images = {}
    /\ runs = 0

InitExtract ==
    /\ text \in Texts
    /\ max_length \in MaxLengths
    /\ result = <<>>
    /\ raised = ""
    /\ xpc = "call"
    /\ InitMain

Call ==
    /\ xpc = "call"
    /\ LET r == extract_image_instructions(text, max_length)
       IN /\ result' = r.value
          /\ raised' = r.raised
    /\ xpc' = "done"
    /\ UNCHANGED <<text, max_length, mvars>>

NextExtract == Call

SpecExtract == InitExtract /\ [][NextExtract]_vars

-----------------------------------------------------------------------------
(* Properties of extract_image_instructions, checked under SpecExtract *)

Returned == xpc = "done" /\ raised = ""

IsPrefix(p, s) == Len(p) <= Len(s) /\ SubSeq(s, 1, Len(p)) = p

HasSpace(s) == \E i \in 1..Len(s) : s[i] = " "

Sep == Chars(", ")

MatchedSetting(t) == Group(t, re_search(setting_pattern, t))
MatchedCharacters(t) == re_findall(characters_pattern, t)
MatchedAction(t) == Group(t, re_search(action_pattern, t))

HasSetting(t) == re_search(setting_pattern, t) # NoMatch
HasCharacter(t) == re_findall(characters_pattern, t) # <<>>
HasAction(t) == re_search(action_pattern, t) # NoMatch

\* setting, then every character phrase, then action, ", " between the pieces
AllPieces(t) ==
    MatchedSetting(t) \o Sep \o Join(Sep, MatchedCharacters(t)) \o Sep \o MatchedAction(t)

\* C1: the call with the castle sentence and max_length=500 returns
\* "in a dark forest, a tall woman, holding a lantern".
C1_CastleSentence ==
    (xpc = "done" /\ text = CastleText /\ max_length = DefaultMaxLength)
        => (raised = "" /\ result = Chars("in a dark forest, a tall woman, holding a lantern"))

C3_TruncatedWithinAnyLimit ==
    (xpc = "done" /\ text # None /\ Len(instruction(text)) > max_length)
        => (raised = "" /\ Len(result) <= max_length /\ IsPrefix(result, instruction(text)))

\* C3 amended: the same for every max_length >= 0.
C3_TruncatedWithinLimit ==
    (xpc = "done" /\ text # None /\ max_length >= 0 /\ Len(instruction(text)) > max_length)
        => (raised = "" /\ Len(result) <= max_length /\ IsPrefix(result, instruction(text)))

C3_Witness ==
    /\ Returned /\ text # None /\ max_length = MaxSmallLength
    /\ Len(instruction(text)) > max_length + 20
    /\ result # <<>> /\ Len(result) < max_length

\* C4: when the call truncates and the first max_length characters of the joined
\* instruction contain a space, the result is that prefix up to (not including) its last
\* space, so the character after the result in the joined instruction is a space; when
\* they contain no space the result is the whole prefix. For the joined instruction
\* "in a forest, a tall woman" and max_length=10 the result has at most 10 characters
\* and ends at a word boundary.
C4_WordBoundary ==
    (xpc = "done" /\ text # None /\ max_length >= 0 /\ Len(instruction(text)) > max_length)
        => LET joined == instruction(text)
               cut == SubSeq(joined, 1, max_length)
           IN /\ raised = ""
              /\ HasSpace(cut) =>
                    /\ \E k \in 1..Len(cut) :
                          /\ cut[k] = " "
                          /\ \A j \in (k + 1)..Len(cut) : cut[j] # " "
                          /\ result = SubSeq(cut, 1, k - 1)
                    /\ joined[Len(result) + 1] = " "
              /\ ~HasSpace(cut) => result = cut
              /\ (joined = ForestText /\ max_length = 10) =>
                    (Len(result) <= 10 /\ joined[Len(result) + 1] = " ")

C4_Witness ==
    /\ Returned /\ text = ForestText /\ instruction(text) = ForestText
    /\ max_length = 10 /\ result = Chars("in a")

\* C7 as stated: the call accepts every text, the empty string and None included,
\* and returns a string without raising.
C7_NeverRaises == xpc = "done" => raised = ""

\* C7 amended: for every str text, the empty string included, the call returns a
\* string without raising (the empty string for the empty text); for None it raises
\* TypeError.
C7_NeverRaisesOnStr ==
    xpc = "done" =>
        /\ text # None => raised = ""
        /\ text = <<>> => result = <<>>
        /\ text = None => raised = "TypeError"

C7_Witness == Returned /\ text = <<>> /\ max_length = DefaultMaxLength /\ result = <<>>

\* C8: for every input text the returned string contains no line-break character.
C8_SingleLine == Returned => \A i \in 1..Len(result) : result[i] # "\n"

\* C9: for every text in which none of the three patterns matches, the call returns
\* the empty string, for every max_length.
C9_NoMatchEmpty ==
    (xpc = "done" /\ text # None /\ ~HasSetting(text) /\ ~HasCharacter(text) /\ ~HasAction(text))
        => (raised = "" /\ result = <<>>)

C9_Witness ==
    /\ Returned /\ text = QuietText /\ max_length < 0
    /\ ~HasSetting(text) /\ ~HasCharacter(text) /\ ~HasAction(text)
    /\ result = <<>>

-----------------------------------------------------------------------------
(* main *)

MaxRuns == 3
PromptMaxLength == 800

StoryTypes == {Chars("fable"), Chars("")}
Settings == {Chars("a wood"), Chars("the sea")}
CharacterLists == {Chars("a fox")}

\* what client.chat.completions.create can give back: a completion (possibly the
\* empty string), or an exception, which the wrapper turns into None
StoryTexts == {Chars(""), Chars("Once on a hill, a big man sat.")}
SummaryTexts == {Chars(""), Chars("A cat sat. "), ForestText}
ImageUrls == {Chars("https://img/1")}

\* lines 42-52 and 100-109: the wrapper's result, given whether the API call raised
ApiResult(ok, value) == IF ok THEN value ELSE None

\* line 167
StoryPrompt(info) ==
    Chars("Craft a childs ") \o info.story_type \o Chars(" story set in ") \o info.setting
        \o Chars(" with characters ") \o info.characters \o Chars(".")

\* lines 173-178
SummaryPrompt(response) ==
    truncate(Chars("Images should be child approperate.") \o Chars("Summarize this text ")
                \o Str(response)
                \o Chars(". Encapsulate the essence of the story with a response no more than 800 characters."),
             PromptMaxLength)

\* INTEGER PRIMARY KEY: one more than the largest id in the table
NextRowId(rows) == IF rows = <<>> THEN 1 ELSE MaxOf({rows[i].id : i \in 1..Len(rows)}) + 1

save_to_database_swapped(rows, info, chat_response, url) ==
    Append(rows, [id |-> NextRowId(rows),
                  story_type |-> info.story_type,
                  setting |-> info.characters,
                  characters |-> info.setting,
                  chat_response |-> chat_response,
                  image_url |-> url])

\* lines 121-124: INSERT INTO stories (...) VALUES (?, ?, ?, ?, ?)
save_to_database(rows, info, chat_response, url) ==
    Append(rows, [id |-> NextRowId(rows),
                  story_type |-> info.story_type,
                  setting |-> info.setting,
                  characters |-> info.characters,
                  chat_response |-> chat_response,
                  image_url |-> url])

Init ==
    /\ text = <<>> /\ max_length = DefaultMaxLength /\ result = <<>>
    /\ raised = "" /\ xpc = "idle"
    /\ InitMain

\* lines 134-167: a process starts main; the configuration is read, the database is
\* opened (the table is kept when it exists), the three answers are read
Start ==
    /\ pc \in {"start", "done", "raised"}
    /\ runs < MaxRuns
    /\ runs' = runs + 1
    /\ text_response' = None /\ image_prompt' = None /\ image_instructions' = None
    /\ image_url' = None /\ failed' = {} /\ image_called' = FALSE
    /\ inserted' = FALSE /\ downloaded' = FALSE /\ lastrowid' = 0
    /\ \E config_ok \in BOOLEAN :
          IF config_ok
          THEN /\ conn' = "open"
               /\ \E st \in StoryTypes, se \in Settings, ch \in CharacterLists :
                     story_info' = [story_type |-> st, setting |-> se, characters |-> ch]
               /\ prompt' = StoryPrompt(story_info')
               /\ exception' = ""
               /\ pc' = "story"
          ELSE /\ conn' = "none"
               /\ story_info' = [story_type |-> <<>>, setting |-> <<>>, characters |-> <<>>]
               /\ prompt' = <<>>
               /\ exception' = "OSError"
               /\ pc' = "raised"
    /\ UNCHANGED <<xvars, db, images>>

\* lines 170-180: the first chat call, then the summarization prompt
GetStory ==
    /\ pc = "story"
    /\ \E ok \in BOOLEAN, completion \in StoryTexts :
          /\ text_response' = ApiResult(ok, completion)
          /\ failed' = IF ok THEN failed ELSE failed \cup {"story"}
    /\ prompt' = SummaryPrompt(text_response')
    /\ pc' = "summary"
    /\ UNCHANGED <<xvars, story_info, image_prompt, image_instructions, image_url,
                   image_called, inserted, downloaded, exception, conn, db, lastrowid,
                   images, runs>>

\* lines 183-188: the second chat call, the extraction, and the print of
\* "\n image text: " + image_instructions, which raises TypeError on None
GetSummary ==
    /\ pc = "summary"
    /\ \E ok \in BOOLEAN, completion \in SummaryTexts :
          /\ image_prompt' = ApiResult(ok, completion)
          /\ failed' = IF ok THEN failed ELSE failed \cup {"summary"}
    /\ image_instructions' =
          IF Truthy(image_prompt')
          THEN extract_image_instructions(image_prompt', DefaultMaxLength).value
          ELSE None
    /\ IF image_instructions' = None
       THEN exception' = "TypeError" /\ pc' = "raised"
       ELSE exception' = "" /\ pc' = "image"
    /\ UNCHANGED <<xvars, story_info, text_response, prompt, image_url, image_called,
                   inserted, downloaded, conn, db, lastrowid, images, runs>>

\* line 191: the image call, made only for a non-empty instruction
CreateImage ==
    /\ pc = "image"
    /\ IF Truthy(image_instructions)
       THEN /\ image_called' = TRUE
            /\ \E ok \in BOOLEAN, url \in ImageUrls :
                  /\ image_url' = ApiResult(ok, url)
                  /\ failed' = IF ok THEN failed ELSE failed \cup {"image"}
       ELSE /\ image_url' = None
            /\ UNCHANGED <<image_called, failed>>
    /\ pc' = "save"
    /\ UNCHANGED <<xvars, story_info, text_response, prompt, image_prompt,
                   image_instructions, inserted, downloaded, exception, conn, db,
                   lastrowid, images, runs>>

\* lines 195-203: insert and commit the row, then download the image to
\* <image_dir>/<lastrowid>.png; download_image raises when the request fails
Save ==
    /\ pc = "save"
    /\ Truthy(text_response) /\ Truthy(image_url)
    /\ db' = save_to_database(db, story_info, text_response, image_url)
    /\ lastrowid' = NextRowId(db)
    /\ inserted' = TRUE
    /\ \E download_ok \in BOOLEAN :
          IF download_ok
          THEN /\ images' = images \cup {<<lastrowid', image_url>>}
               /\ downloaded' = TRUE
               /\ exception' = ""
               /\ pc' = "close"
          ELSE /\ exception' = "RequestException"
               /\ pc' = "raised"
               /\ UNCHANGED <<images, downloaded>>
    /\ UNCHANGED <<xvars, story_info, text_response, prompt, image_prompt,
                   image_instructions, image_url, failed, image_called, conn, runs>>

\* line 195, condition false: the save/download block is skipped
SkipSave ==
    /\ pc = "save"
    /\ ~(Truthy(text_response) /\ Truthy(image_url))
    /\ pc' = "close"
    /\ UNCHANGED <<xvars, story_info, text_response, prompt, image_prompt,
                   image_instructions, image_url, failed, image_called, inserted,
                   downloaded, exception, conn, db, lastrowid, images, runs>>

\* line 206
Close ==
    /\ pc = "close"
    /\ conn' = "closed"
    /\ pc' = "done"
    /\ UNCHANGED <<xvars, story_info, text_response, prompt, image_prompt,
                   image_instructions, image_url, failed, image_called, inserted,
                   downloaded, exception, db, lastrowid, images, runs>>

Next == Start \/ GetStory \/ GetSummary \/ CreateImage \/ Save \/ SkipSave \/ Close

Spec == Init /\ [][Next]_vars

-----------------------------------------------------------------------------
(* Properties of main, checked under Spec *)

\* C5: when a chat call or the image call of a run fails, the only consequence is
\* that the save/download block is skipped: no row is inserted, no image is
\* downloaded, no exception leaves main, and the run goes on to close the connection.
C5_FailureOnlySkipsSave ==
    failed # {} => (~inserted /\ ~downloaded /\ exception = "" /\ pc # "raised")

\* C6: when the first chat call fails, the image call is never made in that run and
\* no row is saved; likewise when the second chat call fails.
C6_FailedChatSkipsImage ==
    /\ "story" \in failed => (~image_called /\ ~inserted)
    /\ "summary" \in failed => (~image_called /\ ~inserted)

\* SELECT ... WHERE id = n
ReadBack(n) == {<<db[i].story_type, db[i].setting, db[i].characters,
                  db[i].chat_response, db[i].image_url>> : i \in {j \in 1..Len(db) : db[j].id = n}}

RowWritten ==
    inserted =>
        ReadBack(lastrowid) = {<<story_info.story_type, story_info.setting,
                                 story_info.characters, text_response, image_url>>}

RowsKept ==
    /\ Len(db') \in {Len(db), Len(db) + 1}
    /\ \A i \in 1..Len(db) : db'[i] = db[i]

\* C10: the row a run writes reads back with exactly the five values the run stored,
\* a run adds at most one row, and no step of any run changes or removes a row that
\* is already in the table.
C10_RoundTrip == [](RowWritten /\ Len(db) <= runs) /\ [][RowsKept]_vars

C10_Witness ==
    /\ pc = "done" /\ runs >= 2 /\ Len(db) = 2 /\ inserted
    /\ db[1].setting # db[2].setting
    /\ ReadBack(1) # ReadBack(2)

=============================================================================
